---- MODULE Spec2Model ----
(***************************************************************************)
(* Insider Radar: the record reconciliation and cluster-detection engine   *)
(* of scraper/scrape.py and its second driver scraper/backfill.py.         *)
(*                                                                         *)
(* Text fields are TLA+ strings.  What Python computes on a string (its    *)
(* order, strptime, strftime, float, re.sub, startswith, lower) is given,  *)
(* for the strings the model uses, by the tables StringOrder, DateOrdinal, *)
(* OrdinalDate, FloatOf, Stripped, PurchaseTypes and StripLower.           *)
(***************************************************************************)
EXTENDS Integers, Sequences, FiniteSets, TLC

VARIABLES
    history,    \* the file HISTORY_CSV: [exists, header, rows]
    latest,     \* the file LATEST_JSON: [state, doc]
    pc,         \* position of the running program
    trades,     \* the in-memory list of trade dicts the program holds
    last,       \* the last call made: its name, arguments and return value
    now         \* datetime.utcnow(), as a date ordinal

vars == <<history, latest, pc, trades, last, now>>

----------------------------------------------------------------------------
(* Configuration *)

MIN_TRADE_VALUE == 50000
CLUSTER_WINDOW_DAYS == 14
CLUSTER_MIN_INSIDERS == 2
HISTORY_DAYS == 1000
INT32_MAX == 2147483647
MAX_PAGES == 5

----------------------------------------------------------------------------
(* Python facts about the strings of the model *)

\* The strings used in date fields, in Python's str order (used by sorted()
\* and by the >= of save_latest_json).
StringOrder ==
    << "", "0000-00-00", "2024-01-31", "2024-02-00", "2024-02-03",
       "2024-02-14", "2024-02-15", "2024-05-10", "N/A" >>

StrRank(s) == CHOOSE i \in 1..Len(StringOrder) : StringOrder[i] = s

StrLE(a, b) == StrRank(a) <= StrRank(b)

\* datetime.strptime(s, "%Y-%m-%d") as a proleptic ordinal (date.toordinal());
\* a string outside the domain raises ValueError.
DateOrdinal ==
    ("2024-01-31" :> 738916) @@ ("2024-02-03" :> 738919) @@
    ("2024-02-14" :> 738930) @@ ("2024-02-15" :> 738931) @@
    ("2024-05-10" :> 739016)

IsDate(s) == s \in DOMAIN DateOrdinal

\* strftime("%Y-%m-%d") of an ordinal.
OrdinalDate ==
    (738930 :> "2024-02-14") @@ (738931 :> "2024-02-15")

\* The value strings of the model that float() accepts, with their value;
\* on any other string float() raises ValueError.
FloatOf ==
    ("49999" :> 49999) @@ ("50000" :> 50000) @@ ("60000" :> 60000) @@
    ("2147483646" :> 2147483646) @@ ("2147483647" :> 2147483647)

\* The strings of the model in which re.sub(r"[$,\s%+]", "", text) removes
\* a character, with what is left.
Stripped == ("$50,000" :> "50000")

\* The trade_type strings of the model for which startswith("P") holds.
PurchaseTypes == {"P - Purchase"}

----------------------------------------------------------------------------
(* Helpers *)

clean_number(text) == IF text \in DOMAIN Stripped THEN Stripped[text] ELSE text

parse_value(text) ==
    IF clean_number(text) \in DOMAIN FloatOf
    THEN FloatOf[clean_number(text)]
    ELSE 0

----------------------------------------------------------------------------
(* Cluster buy detection *)

\* key=lambda x: x["trade_date"] if x["trade_date"] else "0000-00-00"
SortKey(t) == IF t.trade_date # "" THEN t.trade_date ELSE "0000-00-00"

\* by_ticker: the tickers in first-seen order, and each ticker's indices
\* into trades in list order.
RECURSIVE TickersFrom(_, _, _)
TickersFrom(ts, k, seen) ==
    IF k > Len(ts) THEN seen
    ELSE IF \E i \in 1..Len(seen) : seen[i] = ts[k].ticker
         THEN TickersFrom(ts, k + 1, seen)
         ELSE TickersFrom(ts, k + 1, Append(seen, ts[k].ticker))

ByTicker(ts, ticker) ==
    SelectSeq([k \in 1..Len(ts) |-> k], LAMBDA k : ts[k].ticker = ticker)

\* sorted(): stable, ascending by key.
InsertSorted(ts, sorted, k) ==
    LET pos == Cardinality({i \in 1..Len(sorted) :
                               StrLE(SortKey(ts[sorted[i]]), SortKey(ts[k]))})
    IN SubSeq(sorted, 1, pos) \o <<k>> \o SubSeq(sorted, pos + 1, Len(sorted))

RECURSIVE SortedTrades(_, _, _, _)
SortedTrades(ts, idxs, k, sorted) ==
    IF k > Len(idxs) THEN sorted
    ELSE SortedTrades(ts, idxs, k + 1, InsertSorted(ts, sorted, idxs[k]))

\* The forward scan of one anchor (the loop over j): the insiders collected.
RECURSIVE ScanWindow(_, _, _, _, _)
ScanWindow(ts, sorted, j, window_end, cluster_insiders) ==
    IF j > Len(sorted) THEN cluster_insiders
    ELSE LET other == ts[sorted[j]] IN
         IF other.trade_date = ""
         THEN ScanWindow(ts, sorted, j + 1, window_end, cluster_insiders)
         ELSE IF ~IsDate(other.trade_date)
         THEN ScanWindow(ts, sorted, j + 1, window_end, cluster_insiders)
         ELSE IF DateOrdinal[other.trade_date] > window_end
         THEN cluster_insiders
         ELSE ScanWindow(ts, sorted, j + 1, window_end,
                         cluster_insiders \cup {other.insider_name})

\* MarkWindow assigning the window test itself, so that a record outside the
\* window of a later anchor loses its flag.
MarkWindowClearing(ts, sorted, anchor_date, window_end) ==
    [k \in 1..Len(ts) |->
        IF /\ \E i \in 1..Len(sorted) : sorted[i] = k
           /\ ts[k].trade_date # ""
           /\ IsDate(ts[k].trade_date)
        THEN [ts[k] EXCEPT !.cluster_buy =
                 /\ anchor_date <= DateOrdinal[ts[k].trade_date]
                 /\ DateOrdinal[ts[k].trade_date] <= window_end]
        ELSE ts[k]]

\* "Mark all trades in this window for this ticker".
MarkWindow(ts, sorted, anchor_date, window_end) ==
    [k \in 1..Len(ts) |->
        IF /\ \E i \in 1..Len(sorted) : sorted[i] = k
           /\ ts[k].trade_date # ""
           /\ IsDate(ts[k].trade_date)
           /\ anchor_date <= DateOrdinal[ts[k].trade_date]
           /\ DateOrdinal[ts[k].trade_date] <= window_end
        THEN [ts[k] EXCEPT !.cluster_buy = TRUE]
        ELSE ts[k]]

\* WindowEnd one day short.
WindowEndExclusive(anchor_date) == anchor_date + CLUSTER_WINDOW_DAYS - 1

\* window_end = anchor_date + timedelta(days=CLUSTER_WINDOW_DAYS)
WindowEnd(anchor_date) == anchor_date + CLUSTER_WINDOW_DAYS

\* One turn of the loop over anchors.
AnchorPass(ts, sorted, i) ==
    LET anchor == ts[sorted[i]] IN
    IF anchor.trade_date = "" THEN ts
    ELSE IF ~IsDate(anchor.trade_date) THEN ts
    ELSE LET anchor_date == DateOrdinal[anchor.trade_date]
             window_end == WindowEnd(anchor_date)
             cluster_insiders ==
                 ScanWindow(ts, sorted, i + 1, window_end, {anchor.insider_name})
         IN IF Cardinality(cluster_insiders) >= CLUSTER_MIN_INSIDERS
            THEN MarkWindow(ts, sorted, anchor_date, window_end)
            ELSE ts

RECURSIVE AnchorLoop(_, _, _)
AnchorLoop(ts, sorted, i) ==
    IF i > Len(sorted) THEN ts
    ELSE AnchorLoop(AnchorPass(ts, sorted, i), sorted, i + 1)

RECURSIVE TickerLoop(_, _, _)
TickerLoop(ts, tickers, n) ==
    IF n > Len(tickers) THEN ts
    ELSE LET idxs == ByTicker(ts, tickers[n])
             sorted == SortedTrades(ts, idxs, 1, <<>>)
         IN TickerLoop(AnchorLoop(ts, sorted, 1), tickers, n + 1)

detect_clusters(ts) == TickerLoop(ts, TickersFrom(ts, 1, <<>>), 1)

----------------------------------------------------------------------------
(* Persistence *)

\* The columns of CSV_FIELDNAMES the model carries (company, price, qty,
\* owned and delta_own are copied like title).
CSV_FIELDNAMES ==
    <<"filing_date", "trade_date", "ticker", "insider_name", "title",
      "trade_type", "value", "cluster_buy">>

\* What csv.writer puts in a cell holding a bool: str(bool).  A str cell is
\* written as it is and read back unchanged.
BoolCell(b) == IF b THEN "True" ELSE "False"

\* writer.writerow({k: trade.get(k, "") for k in CSV_FIELDNAMES})
CsvRow(trade) ==
    [filing_date |-> trade.filing_date,
     trade_date |-> trade.trade_date,
     ticker |-> trade.ticker,
     insider_name |-> trade.insider_name,
     title |-> trade.title,
     trade_type |-> trade.trade_type,
     value |-> trade.value,
     cluster_buy |-> BoolCell(trade.cluster_buy)]

\* RowKey with the value left out.
RowKeyWithoutValue(row) ==
    row.filing_date \o "|" \o row.ticker \o "|" \o row.insider_name

\* f"{row['filing_date']}|{row['ticker']}|{row['insider_name']}|{row['value']}"
RowKey(row) ==
    row.filing_date \o "|" \o row.ticker \o "|" \o row.insider_name
        \o "|" \o row.value

\* f"{trade['filing_date']}|{trade['ticker']}|{trade['insider_name']}|{trade['value']}"
TradeKey(trade) ==
    trade.filing_date \o "|" \o trade.ticker \o "|" \o trade.insider_name
        \o "|" \o trade.value

\* load_existing_csv: the keys of the dict it returns (its values are not read).
load_existing_csv(file) ==
    IF ~file.exists THEN {}
    ELSE {RowKey(file.rows[i]) : i \in 1..Len(file.rows)}

\* str.strip().lower() of the cells csv.writer produced for cluster_buy.
StripLower == ("True" :> "true") @@ ("False" :> "false")

\* load_history_as_list
load_history_as_list(file) ==
    IF ~file.exists THEN <<>>
    ELSE [i \in 1..Len(file.rows) |->
             [file.rows[i] EXCEPT
                 !.cluster_buy = (StripLower[file.rows[i].cluster_buy] = "true")]]

\* Remember with the assignment left out.
RememberNothing(existing, key) == existing

\* existing[key] = trade
Remember(existing, key) == existing \cup {key}

\* open(HISTORY_CSV, "a") and the header: the file as the writer finds it.
OpenAppend(file) ==
    [exists |-> TRUE,
     header |-> IF ~file.exists \/ (~file.header /\ file.rows = <<>>)
                THEN TRUE ELSE file.header,
     rows |-> file.rows]

\* WriteRow on a file opened with "w" in place of "a".
WriteRowTruncating(file, row) == [file EXCEPT !.rows = <<row>>]

\* writer.writerow on a file opened for appending.
WriteRow(file, row) == [file EXCEPT !.rows = Append(file.rows, row)]

\* The loop of save_history_csv over new_trades; wrote[k] tells whether
\* writerow was called for new_trades[k].
RECURSIVE SaveLoop(_, _, _, _, _)
SaveLoop(new_trades, k, existing, file, wrote) ==
    IF k > Len(new_trades)
    THEN [file |-> file, wrote |-> wrote]
    ELSE LET trade == new_trades[k]
             key == TradeKey(trade)
         IN IF key \notin existing
            THEN SaveLoop(new_trades, k + 1, Remember(existing, key),
                          WriteRow(file, CsvRow(trade)), Append(wrote, TRUE))
            ELSE SaveLoop(new_trades, k + 1, existing, file,
                          Append(wrote, FALSE))

\* added: one per writerow.
Added(wrote) == Cardinality({k \in 1..Len(wrote) : wrote[k]})

save_history_csv(file, new_trades) ==
    LET existing == load_existing_csv(file)
        done == SaveLoop(new_trades, 1, existing, OpenAppend(file), <<>>)
    IN [file |-> done.file, wrote |-> done.wrote, added |-> Added(done.wrote)]

\* InValueRange letting the sentinel through.
InValueRangeInclusive(v) == MIN_TRADE_VALUE <= v /\ v <= INT32_MAX

\* MIN_TRADE_VALUE <= parse_value(...) < INT32_MAX
InValueRange(v) == MIN_TRADE_VALUE <= v /\ v < INT32_MAX

\* cutoff = (datetime.utcnow() - timedelta(days=HISTORY_DAYS)).strftime(...)
Cutoff(t) == OrdinalDate[t - HISTORY_DAYS]

\* The payload save_latest_json builds at time t.
Payload(ts, t) ==
    LET filtered ==
            SelectSeq(ts, LAMBDA x :
                /\ StrLE(Cutoff(t), x.filing_date)
                /\ InValueRange(parse_value(x.value)))
    IN [last_updated |-> t, trade_count |-> Len(filtered), trades |-> filtered]

\* open(LATEST_JSON, "w"): the file is created or cut to length zero.
OpenWrite(file) == [state |-> "empty", doc |-> <<>>]

\* json.dump under way: a part of the document is in the file.
DumpPart(file, payload) == [state |-> "partial", doc |-> payload]

\* The with block left: the whole document is in the file.
CloseWritten(file, payload) == [state |-> "complete", doc |-> payload]

save_latest_json(file, ts, t) ==
    LET payload == Payload(ts, t)
    IN CloseWritten(DumpPart(OpenWrite(file), payload), payload)

----------------------------------------------------------------------------
(* Scraping: the filters at the end of fetch_trades and of fetch_page *)

\* scrape.fetch_trades: the "defensive filters" on the parsed rows.
fetch_trades(rows) ==
    SelectSeq(rows, LAMBDA t :
        /\ t.trade_type \in PurchaseTypes
        /\ parse_value(t.value) >= MIN_TRADE_VALUE)

\* backfill.fetch_page: the "in-code safety filter" on the parsed rows.
fetch_page(rows) ==
    SelectSeq(rows, LAMBDA t :
        /\ t.trade_type \in PurchaseTypes
        /\ MIN_TRADE_VALUE <= parse_value(t.value)
        /\ parse_value(t.value) < INT32_MAX)

\* NoTrades with the test left out.
NeverEmpty(ts) == FALSE

\* "if not trades" of scrape.main, "if not all_fetched" of backfill.main.
NoTrades(ts) == ts = <<>>

----------------------------------------------------------------------------
(* detect_clusters as a function of its argument *)

MaxTrades == 3

NoFile == [exists |-> FALSE, header |-> FALSE, rows |-> <<>>]
NoLatest == [state |-> "missing", doc |-> <<>>]
NoCall == [op |-> "none", pass |-> 0]

DetectTickers == {"AAA", "BBB"}
DetectInsiders == {"Ann", "Bob"}
DetectDates == {"", "2024-01-31", "2024-02-00", "2024-02-14", "2024-02-15"}

Trade(fd, td, tk, ins, ti, v, cb) ==
    [filing_date |-> fd, trade_date |-> td, ticker |-> tk, insider_name |-> ins,
     title |-> ti, trade_type |-> "P - Purchase", value |-> v,
     cluster_buy |-> cb]

FreshTrades ==
    {Trade("2024-02-15", td, tk, ins, "Dir", "60000", FALSE) :
        td \in DetectDates, tk \in DetectTickers, ins \in DetectInsiders}

ListsUpTo(S, n) == UNION {[1..m -> S] : m \in 0..n}

InitDetect ==
    /\ history = NoFile
    /\ latest = NoLatest
    /\ now = 0
    /\ pc = "input"
    /\ trades \in ListsUpTo(FreshTrades, MaxTrades)
    /\ last = NoCall

DetectCall ==
    /\ pc \in {"input", "detected"}
    /\ last.pass < 2
    /\ trades' = detect_clusters(trades)
    /\ last' = [op |-> "detect_clusters", arg |-> trades,
                input |-> IF last.pass = 0 THEN trades ELSE last.input,
                pass |-> last.pass + 1]
    /\ pc' = "detected"
    /\ UNCHANGED <<history, latest, now>>

NextDetect == DetectCall

SpecDetect == InitDetect /\ [][NextDetect]_vars

\* The same, on lists whose flags are already set in any way.
MaxFlagged == 3

FlaggedDates == {"2024-01-31", "2024-02-14", "2024-02-15"}

FlaggedTrades ==
    {Trade("2024-02-15", td, tk, ins, "Dir", "60000", cb) :
        td \in FlaggedDates, tk \in DetectTickers, ins \in DetectInsiders,
        cb \in BOOLEAN}

InitRedetect ==
    /\ history = NoFile
    /\ latest = NoLatest
    /\ now = 0
    /\ pc = "input"
    /\ trades \in ListsUpTo(FlaggedTrades, MaxFlagged)
    /\ last = NoCall

SpecRedetect == InitRedetect /\ [][NextDetect]_vars

\* A trade_date detect_clusters neither skips as empty nor fails to parse.
Parseable(t) == t.trade_date # "" /\ IsDate(t.trade_date)

Day(t) == DateOrdinal[t.trade_date]

\* The records of ts, of the ticker of ts[a], dated within the window that
\* starts at ts[a]'s trade date, both ends included.
WindowMembers(ts, a) ==
    {m \in 1..Len(ts) :
        /\ ts[m].ticker = ts[a].ticker
        /\ Parseable(ts[m])
        /\ Day(ts[a]) <= Day(ts[m])
        /\ Day(ts[m]) <= Day(ts[a]) + CLUSTER_WINDOW_DAYS}

InQualifyingCluster(ts, k) ==
    \E a \in 1..Len(ts) :
        /\ Parseable(ts[a])
        /\ k \in WindowMembers(ts, a)
        /\ Cardinality({ts[m].insider_name : m \in WindowMembers(ts, a)})
               >= CLUSTER_MIN_INSIDERS

AllUnflagged(ts) == \A k \in 1..Len(ts) : ~ts[k].cluster_buy

\* C4: on a list whose flags are all false on entry, detect_clusters flags a
\* record with a parseable trade_date d exactly when some record of the same
\* ticker dated a has a <= d <= a + 14 days and the records of that ticker
\* dated in [a, a + 14 days] carry at least 2 distinct insider names.  The
\* right-hand side looks at every record of the ticker, so the equivalence
\* also says that ending the forward scan at the first record past the
\* window end loses nothing.
ClusterFlagsExact ==
    (last.op = "detect_clusters" /\ AllUnflagged(last.arg)) =>
        /\ Len(trades) = Len(last.arg)
        /\ \A k \in 1..Len(trades) :
              Parseable(last.arg[k]) =>
                  (trades[k].cluster_buy <=> InQualifyingCluster(last.arg, k))

\* A pass over unflagged records that flagged one record and left another
\* parseable record of the same ticker, which shares no window with a second
\* insider, unflagged.
ClusterFlagsExactWitness ==
    /\ last.op = "detect_clusters"
    /\ last.pass = 1
    /\ AllUnflagged(last.arg)
    /\ \E k, m \in 1..Len(trades) :
          /\ trades[k].ticker = trades[m].ticker
          /\ trades[k].cluster_buy
          /\ Parseable(trades[m])
          /\ ~trades[m].cluster_buy

\* C5: detect_clusters never turns a cluster_buy flag from true to false,
\* and a second run on its own output returns exactly the flags of the first.
ClusterMonotone ==
    last.op = "detect_clusters" =>
        /\ \A k \in 1..Len(last.arg) :
              last.arg[k].cluster_buy => trades[k].cluster_buy
        /\ last.pass = 2 => trades = last.arg

\* The second run has returned, on a list that came with one flag already
\* true and got another one set by the first run.
ClusterMonotoneWitness ==
    /\ last.op = "detect_clusters"
    /\ last.pass = 2
    /\ \E k, m \in 1..Len(trades) :
          /\ last.input[k].cluster_buy
          /\ ~last.input[m].cluster_buy
          /\ trades[m].cluster_buy

----------------------------------------------------------------------------
(* The ledger under any sequence of save_history_csv and load calls *)

MaxBatch == 2

EmptyFile == [exists |-> TRUE, header |-> FALSE, rows |-> <<>>]

T1 == Trade("2024-02-14", "2024-02-03", "A|B", "C", "CEO", "50000", FALSE)

LedgerTrades ==
    { T1,
      [T1 EXCEPT !.ticker = "A", !.insider_name = "B|C"],
      [T1 EXCEPT !.value = "60000"],
      [T1 EXCEPT !.title = "Dir", !.cluster_buy = TRUE] }

InitLedger ==
    /\ history \in {NoFile, EmptyFile}
    /\ latest = NoLatest
    /\ now = 0
    /\ pc = "idle"
    /\ trades = <<>>
    /\ last = NoCall

\* last.repeat: the call just before was a save_history_csv of the same batch.
SaveCall ==
    \E batch \in ListsUpTo(LedgerTrades, MaxBatch) :
        LET r == save_history_csv(history, batch) IN
        /\ history' = r.file
        /\ last' = [op |-> "save_history_csv", pass |-> 0, batch |-> batch,
                    wrote |-> r.wrote, added |-> r.added,
                    repeat |-> (last.op = "save_history_csv"
                                   /\ last.batch = batch)]
        /\ UNCHANGED <<latest, pc, trades, now>>

LoadCall ==
    /\ trades' = load_history_as_list(history)
    /\ last' = [op |-> "load_history_as_list", pass |-> 0]
    /\ UNCHANGED <<history, latest, pc, now>>

NextLedger == SaveCall \/ LoadCall

SpecLedger == InitLedger /\ [][NextLedger]_vars

\* Equal, as strings, in each of the four fields of the identity key.
SameIdentity(a, b) ==
    /\ a.filing_date = b.filing_date
    /\ a.ticker = b.ticker
    /\ a.insider_name = b.insider_name
    /\ a.value = b.value

\* C1: no two rows stored in the ledger agree in all four of filing_date,
\* ticker, insider_name and value.
LedgerKeysUnique ==
    \A i, j \in 1..Len(history.rows) :
        SameIdentity(history.rows[i], history.rows[j]) => i = j

\* A call has stored a record and skipped a later record of its batch with
\* the same four fields, the ledger holding two rows or more.
LedgerKeysUniqueWitness ==
    /\ last.op = "save_history_csv"
    /\ Len(history.rows) >= 2
    /\ \E i, k \in 1..Len(last.batch) :
          i < k /\ last.wrote[i] /\ ~last.wrote[k]
                /\ SameIdentity(last.batch[i], last.batch[k])

\* C2: save_history_csv skips an input record if and only if a record equal
\* to it in all four key fields is already stored or came earlier in the
\* batch: records differing in one key field are both stored, records equal
\* in the four but differing elsewhere are stored once, the first one kept.
SkipsExactlyEqualIdentities ==
    [][ last'.op = "save_history_csv" =>
          \A k \in 1..Len(last'.batch) :
              ~last'.wrote[k] <=>
                  \/ \E i \in 1..Len(history.rows) :
                        SameIdentity(history.rows[i], last'.batch[k])
                  \/ \E i \in 1..(k - 1) :
                        SameIdentity(last'.batch[i], last'.batch[k]) ]_vars

\* C3: a save_history_csv call with the batch of the call just before it
\* returns 0 and leaves the rows of the ledger as they were.
SecondMergeAddsNothing ==
    [][ ( /\ last.op = "save_history_csv"
          /\ last'.op = "save_history_csv"
          /\ last'.batch = last.batch )
        => (last'.added = 0 /\ history'.rows = history.rows) ]_vars

\* A batch of two records with different keys has been merged twice in a row.
SecondMergeAddsNothingWitness ==
    /\ last.op = "save_history_csv"
    /\ last.repeat
    /\ Len(last.batch) = 2
    /\ ~SameIdentity(last.batch[1], last.batch[2])
    /\ last.added = 0

\* The rows written for the records of a batch that were not skipped, in
\* batch order.
RECURSIVE WrittenRows(_, _, _)
WrittenRows(batch, wrote, k) ==
    IF k > Len(batch) THEN <<>>
    ELSE (IF wrote[k] THEN <<CsvRow(batch[k])>> ELSE <<>>)
             \o WrittenRows(batch, wrote, k + 1)

\* C9: every save_history_csv call leaves the rows stored before it as a
\* prefix of the ledger, in the same order, puts the records it did not skip
\* after them in batch order, and returns the number of rows the ledger grew
\* by; load_history_as_list returns the rows in that order.
LedgerAppendOnly ==
    [][ /\ last'.op = "save_history_csv" =>
            /\ history'.rows =
                  history.rows \o WrittenRows(last'.batch, last'.wrote, 1)
            /\ last'.added = Len(history'.rows) - Len(history.rows)
        /\ last'.op = "load_history_as_list" =>
            /\ Len(trades') = Len(history.rows)
            /\ \A i \in 1..Len(trades') :
                  /\ SameIdentity(trades'[i], history.rows[i])
                  /\ trades'[i].title = history.rows[i].title
                  /\ trades'[i].trade_date = history.rows[i].trade_date
                  /\ trades'[i].cluster_buy
                         = (history.rows[i].cluster_buy = "True") ]_vars

\* A call with a batch of two has skipped its first record and added its
\* second behind a row that was already stored.
LedgerAppendOnlyWitness ==
    /\ last.op = "save_history_csv"
    /\ Len(last.batch) = 2
    /\ ~last.wrote[1]
    /\ last.wrote[2]
    /\ Len(history.rows) = 2

----------------------------------------------------------------------------
(* save_latest_json as a function of its argument and of the clock *)

MaxSnapshot == 2

\* Two days of the clock: 2026-11-10 and 2026-11-11, whose cutoffs are
\* 2024-02-14 and 2024-02-15.
Clock == {739930, 739931}

SnapshotFilingDates == {"", "2024-02-03", "2024-02-14", "2024-02-15", "N/A"}

SnapshotValues ==
    {"", "49999", "50000", "$50,000", "2147483646", "2147483647"}

SnapshotTrades ==
    {Trade(fd, "2024-02-03", "AAA", "Ann", "Dir", v, FALSE) :
        fd \in SnapshotFilingDates, v \in SnapshotValues}

InitSnapshot ==
    /\ history = NoFile
    /\ latest = NoLatest
    /\ now \in Clock
    /\ pc = "input"
    /\ trades \in ListsUpTo(SnapshotTrades, MaxSnapshot)
    /\ last = NoCall

SnapshotCall ==
    /\ pc = "input"
    /\ latest' = save_latest_json(latest, trades, now)
    /\ last' = [op |-> "save_latest_json", pass |-> 0]
    /\ pc' = "published"
    /\ UNCHANGED <<history, trades, now>>

NextSnapshot == SnapshotCall

SpecSnapshot == InitSnapshot /\ [][NextSnapshot]_vars

\* filing_date >= now - HISTORY_DAYS: between dates, by the calendar; a
\* filing_date that is no date is compared as text with the cutoff's ISO
\* text, as section 4.4 of the specification words the comparison.
Recent(x, t) ==
    IF IsDate(x.filing_date)
    THEN DateOrdinal[x.filing_date] >= t - HISTORY_DAYS
    ELSE StrRank(x.filing_date) >= StrRank(Cutoff(t))

\* The value a record's text stands for, 0 when it stands for none.
ValueOf(x) ==
    CASE x.value \in {"49999"} -> 49999
      [] x.value \in {"50000", "$50,000"} -> 50000
      [] x.value \in {"60000"} -> 60000
      [] x.value \in {"2147483646"} -> 2147483646
      [] x.value \in {"2147483647"} -> 2147483647
      [] OTHER -> 0

\* C6: save_latest_json at time now publishes exactly the input records
\* with filing_date >= now - HISTORY_DAYS and MIN_TRADE_VALUE <= value <
\* 2147483647, in input order, and trade_count is their number.
SnapshotExact ==
    last.op = "save_latest_json" =>
        /\ latest.state = "complete"
        /\ latest.doc.trades =
              SelectSeq(trades, LAMBDA x :
                  /\ Recent(x, now)
                  /\ MIN_TRADE_VALUE <= ValueOf(x)
                  /\ ValueOf(x) < 2147483647)
        /\ latest.doc.trade_count = Len(latest.doc.trades)

\* A snapshot of one record out of two: a record at a boundary of the value
\* range, filed on the cutoff day, together with the record just across that
\* boundary.
SnapshotExactWitness ==
    /\ last.op = "save_latest_json"
    /\ Len(trades) = 2
    /\ latest.doc.trade_count = 1
    /\ \A k \in 1..2 : trades[k].filing_date = Cutoff(now)
    /\ \/ {trades[1].value, trades[2].value} = {"49999", "50000"}
       \/ {trades[1].value, trades[2].value} = {"2147483646", "2147483647"}

----------------------------------------------------------------------------
(* Runs of scrape.main and backfill.main, one after another *)

MaxFetch == 2

\* Parsed rows the source site may serve: two insiders of one ticker buying
\* three days apart, a second filing under the key of the second with a
\* trade date months later, a sale, and a purchase under the value floor.
RowX == Trade("2024-02-14", "2024-01-31", "AAA", "Ann", "CEO", "60000", FALSE)
RowY == Trade("2024-02-14", "2024-02-03", "AAA", "Bob", "Dir", "60000", FALSE)

ParsedRows ==
    { RowX,
      RowY,
      [RowY EXCEPT !.trade_date = "2024-05-10"],
      [RowX EXCEPT !.trade_type = "S - Sale"],
      [RowY EXCEPT !.value = "49999"] }

Init ==
    /\ history = NoFile
    /\ latest = NoLatest
    /\ now \in Clock
    /\ pc = "idle"
    /\ trades = <<>>
    /\ last = NoCall

Later(t) == {u \in Clock : u >= t}

\* scrape.main up to the return of fetch_trades.
ScrapeFetch ==
    /\ pc = "idle"
    /\ \E rows \in ListsUpTo(ParsedRows, MaxFetch) :
          trades' = fetch_trades(rows)
    /\ now' \in Later(now)
    /\ pc' = "fetched"
    /\ last' = [op |-> "fetch_trades", pass |-> 0]
    /\ UNCHANGED <<history, latest>>

\* backfill.main: one turn of the loop over pages.  last.pass is the page
\* number; no page is served that would take all_fetched over MaxFetch rows.
BackfillFetchPage ==
    /\ \/ pc = "idle"
       \/ pc = "paging"
    /\ LET all_fetched == IF pc = "idle" THEN <<>> ELSE trades
           page == IF pc = "idle" THEN 1 ELSE last.pass + 1
       IN \E parsed \in ListsUpTo(ParsedRows, MaxFetch - Len(all_fetched)) :
             LET rows == fetch_page(parsed) IN
             /\ trades' = all_fetched \o rows
             /\ pc' = IF rows = <<>> \/ page = MAX_PAGES
                      THEN "fetched" ELSE "paging"
             /\ last' = [op |-> "fetch_page", pass |-> page]
    /\ now' \in IF pc = "idle" THEN Later(now) ELSE {now}
    /\ UNCHANGED <<history, latest>>

\* sys.exit(0) on an empty fetch.
ExitNoTrades ==
    /\ pc = "fetched"
    /\ NoTrades(trades)
    /\ pc' = "idle"
    /\ last' = [op |-> "exit", pass |-> 0]
    /\ UNCHANGED <<history, latest, trades, now>>

\* trades = detect_clusters(trades), on the batch.
DetectBatch ==
    /\ pc = "fetched"
    /\ ~NoTrades(trades)
    /\ trades' = detect_clusters(trades)
    /\ pc' = "clustered"
    /\ last' = [op |-> "detect_clusters", pass |-> 1]
    /\ UNCHANGED <<history, latest, now>>

\* added = save_history_csv(trades)
SaveHistory ==
    /\ pc = "clustered"
    /\ LET r == save_history_csv(history, trades) IN
          /\ history' = r.file
          /\ last' = [op |-> "save_history_csv", pass |-> 0,
                      batch |-> trades, wrote |-> r.wrote, added |-> r.added]
    /\ pc' = "saved"
    /\ UNCHANGED <<latest, trades, now>>

\* all_trades = load_history_as_list()
LoadHistory ==
    /\ pc = "saved"
    /\ trades' = load_history_as_list(history)
    /\ pc' = "loaded"
    /\ last' = [op |-> "load_history_as_list", pass |-> 0]
    /\ UNCHANGED <<history, latest, now>>

\* all_trades = detect_clusters(all_trades)
DetectHistory ==
    /\ pc = "loaded"
    /\ trades' = detect_clusters(trades)
    /\ pc' = "reclustered"
    /\ last' = [op |-> "detect_clusters", pass |-> 2]
    /\ UNCHANGED <<history, latest, now>>

\* save_latest_json up to open(LATEST_JSON, "w").
SnapshotOpen ==
    /\ pc = "reclustered"
    /\ latest' = OpenWrite(latest)
    /\ pc' = "opened"
    /\ last' = [op |-> "save_latest_json", pass |-> 0,
                payload |-> Payload(trades, now)]
    /\ UNCHANGED <<history, trades, now>>

\* json.dump has written a part of the payload.
SnapshotDump ==
    /\ pc = "opened"
    /\ latest' = DumpPart(latest, last.payload)
    /\ pc' = "dumping"
    /\ UNCHANGED <<history, trades, last, now>>

\* json.dump has returned and the file is closed; main returns.
SnapshotClose ==
    /\ pc = "dumping"
    /\ latest' = CloseWritten(latest, last.payload)
    /\ pc' = "idle"
    /\ trades' = <<>>
    /\ last' = [op |-> "done", pass |-> 0]
    /\ UNCHANGED <<history, now>>

\* The process is killed between two steps of a run; what it held in memory
\* is gone, the files stay as they are.
Interrupt ==
    /\ pc # "idle"
    /\ pc' = "idle"
    /\ trades' = <<>>
    /\ last' = [op |-> "interrupted", pass |-> 0, at |-> pc]
    /\ UNCHANGED <<history, latest, now>>

Next ==
    \/ ScrapeFetch
    \/ BackfillFetchPage
    \/ ExitNoTrades
    \/ DetectBatch
    \/ SaveHistory
    \/ LoadHistory
    \/ DetectHistory
    \/ SnapshotOpen
    \/ SnapshotDump
    \/ SnapshotClose
    \/ Interrupt

Spec == Init /\ [][Next]_vars

\* C7: a run interrupted at any step of save_latest_json leaves in
\* LATEST_JSON the complete previous snapshot (or none, if there was none)
\* or the complete new one, never an empty or partly written document.
SnapshotNeverTorn ==
    last.op = "interrupted" => latest.state \in {"missing", "complete"}

\* C8: a run whose fetch yields no qualifying record ends at once and leaves
\* the ledger and the published snapshot as they were.
EmptyFetchChangesNothing ==
    [][ (pc = "fetched" /\ trades = <<>>)
        => (pc' = "idle" /\ history' = history /\ latest' = latest) ]_vars

\* A run that fetched nothing has ended with a ledger and a snapshot in place.
EmptyFetchChangesNothingWitness ==
    /\ last.op = "exit"
    /\ pc = "idle"
    /\ Len(history.rows) >= 1
    /\ latest.state = "complete"
    /\ latest.doc.trade_count >= 1

\* C10: every record published with cluster_buy = true is a row of the
\* ledger that is in a qualifying cluster among the rows of the ledger.
PublishedFlagsBacked ==
    latest.state = "complete" =>
        \A n \in 1..Len(latest.doc.trades) :
            latest.doc.trades[n].cluster_buy =>
                \E k \in 1..Len(history.rows) :
                    /\ SameIdentity(history.rows[k], latest.doc.trades[n])
                    /\ history.rows[k].trade_date
                           = latest.doc.trades[n].trade_date
                    /\ InQualifyingCluster(history.rows, k)

====
